---- MODULE Spec2Model ----
(***************************************************************************)
(* discrete-time: a TimeTraveler steps a moment through a time series and  *)
(* calls a callback once per interval.  The model follows                  *)
(* lib/time_traveler.js (constructor, run, runAsync, step_forward,         *)
(* step_backward, validate, is_valid) and index.js (the facade run).       *)
(*                                                                         *)
(* A moment is modelled as a calendar date [valid, y, m, d] (m is 1..12);  *)
(* moment's add/subtract are modelled by what they do on such a date:      *)
(* days move along the calendar, months and years set the month and clamp  *)
(* the day of month to the length of the target month.                     *)
(***************************************************************************)
EXTENDS Integers, Sequences, FiniteSets, TLC

\* ------------------------------------------------------------------ bounds
\* number of top-level calls made in one behaviour when run is given
\* callbacks that run another traveler or throw
MaxCallbackOps == 2
\* largest steps of the traveler a callback runs
MaxInner == 2
\* number of invocations after which a run that does not end is cut off
MaxCalls == 5
\* number of calls, from the first, among which a caller may assign
\* traveler.steps
MaxFieldOps == 2
\* number of top-level calls (step_forward, step_backward, run, runAsync,
\* facade run) made in one behaviour
MaxOps == 3
\* largest integer given as settings.steps
MaxSteps == 3

\* ------------------------------------------------------- calendar (moment)
isLeapYear(y) == (y % 4 = 0 /\ y % 100 # 0) \/ y % 400 = 0

\* days in month m (1..12) of year y
daysInMonth(y, m) ==
  IF m = 2 THEN (IF isLeapYear(y) THEN 29 ELSE 28)
  ELSE IF m \in {4, 6, 9, 11} THEN 30 ELSE 31

Min(a, b) == IF a < b THEN a ELSE b

InvalidMoment == [valid |-> FALSE, y |-> 0, m |-> 0, d |-> 0]

\* the day after / before a date
NextDay(t) ==
  IF t.d < daysInMonth(t.y, t.m) THEN [t EXCEPT !.d = t.d + 1]
  ELSE IF t.m < 12 THEN [t EXCEPT !.m = t.m + 1, !.d = 1]
  ELSE [t EXCEPT !.y = t.y + 1, !.m = 1, !.d = 1]

PrevDay(t) ==
  IF t.d > 1 THEN [t EXCEPT !.d = t.d - 1]
  ELSE IF t.m > 1 THEN [t EXCEPT !.m = t.m - 1, !.d = daysInMonth(t.y, t.m - 1)]
  ELSE [t EXCEPT !.y = t.y - 1, !.m = 12, !.d = 31]

\* Date.setDate(date + n): n days along the calendar
RECURSIVE addDays(_, _)
addDays(t, n) ==
  IF n = 0 THEN t
  ELSE IF n > 0 THEN addDays(NextDay(t), n - 1)
  ELSE addDays(PrevDay(t), n + 1)

\* moment's setMonth(mom, mom.month() + n): the month index may leave 0..11,
\* the year follows, and the day of month is clamped to the target month
addMonths(t, n) ==
  LET idx == (t.m - 1) + n
      mm  == idx % 12
      yy  == t.y + ((idx - mm) \div 12)
  IN  [t EXCEPT !.y = yy, !.m = mm + 1, !.d = Min(t.d, daysInMonth(yy, mm + 1))]

\* moment.add(amount, units): an invalid moment is left alone; a duration in
\* years is held as 12 months per year
momentAdd(t, amount, units) ==
  IF ~t.valid THEN t
  ELSE IF units = "days" THEN addDays(t, amount)
  ELSE IF units = "months" THEN addMonths(t, amount)
  ELSE addMonths(t, 12 * amount)

\* moment.subtract(amount, units) is add with the amount negated
momentSubtract(t, amount, units) == momentAdd(t, 0 - amount, units)

\* moment(settings.starts_at): an ISO string "y-m-d" parses to that date when
\* the month and day exist (no overflow); any other input (true) is invalid
moment(input) ==
  IF input.kind = "iso" /\ input.m \in 1..12 /\ input.d \in 1..daysInMonth(input.y, input.m)
  THEN [valid |-> TRUE, y |-> input.y, m |-> input.m, d |-> input.d]
  ELSE InvalidMoment

\* -------------------------------------------------------------- JS values
\* settings.steps and settings.time_scale are JS values [kind, num10]:
\* kind is "int", "frac", "bool", "str" or "undef"; num10 is ten times the
\* number the value converts to (5 -> 50, 1.5 -> 15, true -> 10, "2" -> 20)
JsInt(n)  == [kind |-> "int", num10 |-> 10 * n]
JsUndef   == [kind |-> "undef", num10 |-> 0]

\* Number.isInteger(v): true for numbers with no fractional part only
NumberIsInteger(v) == v.kind = "int"

\* i < v for an integer i: v converts to a number, undefined to NaN, and a
\* comparison with NaN is false
LessThan(n, v) == v.kind # "undef" /\ 10 * n < v.num10

\* mutant: v ?? 1, which keeps 0
OrOne_nullish(v) == IF v.kind = "undef" THEN 1 ELSE v.num10 \div 10

\* v || 1 for time_scale: undefined and 0 are falsy
OrOne(v) == IF v.kind = "undef" \/ v.num10 = 0 THEN 1 ELSE v.num10 \div 10

\* --------------------------------------------------------------- inputs
Travelers == {"T", "F"}

StartsAtInputs ==
  { [kind |-> "iso", y |-> 2016, m |-> 10, d |-> 31],
    [kind |-> "iso", y |-> 2016, m |-> 1,  d |-> 31],
    [kind |-> "iso", y |-> 2016, m |-> 2,  d |-> 30],
    [kind |-> "bool", y |-> 0, m |-> 0, d |-> 0] }

StepsInputs ==
  { JsInt(n) : n \in -1..MaxSteps } \cup
  { [kind |-> "bool", num10 |-> 10], [kind |-> "str", num10 |-> 20],
    [kind |-> "frac", num10 |-> 15], JsUndef }

UnitsInputs == {"days", "months", "years"}

ScaleInputs == { JsUndef, JsInt(0), JsInt(2) }

SettingsInputs ==
  [starts_at : StartsAtInputs, steps : StepsInputs,
   time_units : UnitsInputs, time_scale : ScaleInputs]

\* ------------------------------------------------------------ TimeTraveler
\* new TimeTraveler(settings).  starts_at and current.time are set to the one
\* moment object starts_at_moment: both fields below always hold the value of
\* that one object.
TimeTraveler(s) ==
  LET starts_at_moment == moment(s.starts_at)
  IN  [starts_at  |-> starts_at_moment,
       steps      |-> s.steps,
       time_units |-> s.time_units,
       time_scale |-> OrOne(s.time_scale),
       current    |-> [time |-> starts_at_moment, step |-> 0]]

\* mutant: the steps rule is looked at only when starts_at passed
validate_first_only(tr) ==
  IF ~tr.starts_at.valid THEN <<"starts_at must be a valid ISO date">>
  ELSE IF ~NumberIsInteger(tr.steps) THEN <<"steps must be an integer">>
  ELSE <<>>

\* validate(): the error messages, the starts_at rule first
validate(tr) ==
  (IF ~tr.starts_at.valid THEN <<"starts_at must be a valid ISO date">> ELSE <<>>)
  \o (IF ~NumberIsInteger(tr.steps) THEN <<"steps must be an integer">> ELSE <<>>)

\* mutant: is_valid that looks at the first rule's message only
is_valid_first_rule(tr) ==
  ~(Len(validate(tr)) > 0 /\ validate(tr)[1] = "starts_at must be a valid ISO date")

\* is_valid(): validate() returned no message
is_valid(tr) == Len(validate(tr)) = 0

\* mutant: step_forward that ignores time_scale and adds one unit
step_forward_unscaled(tr) ==
  LET t2 == momentAdd(tr.current.time, 1, tr.time_units)
  IN  [tr EXCEPT !.current = [time |-> t2, step |-> tr.current.step + 1],
                 !.starts_at = t2]

\* step_forward(): current.step++, then current.time.add(...) in place; the
\* moment mutated is also the one starts_at names
step_forward(tr) ==
  LET t2 == momentAdd(tr.current.time, tr.time_scale, tr.time_units)
  IN  [tr EXCEPT !.current = [time |-> t2, step |-> tr.current.step + 1],
                 !.starts_at = t2]

\* mutant: step_backward that adds the interval instead of subtracting it
step_backward_adds(tr) ==
  LET t2 == momentAdd(tr.current.time, tr.time_scale, tr.time_units)
  IN  [tr EXCEPT !.current = [time |-> t2, step |-> tr.current.step - 1],
                 !.starts_at = t2]

\* mutant: step_backward that does not go below step 0
step_backward_floored(tr) ==
  IF tr.current.step <= 0 THEN tr
  ELSE LET t2 == momentSubtract(tr.current.time, tr.time_scale, tr.time_units)
       IN  [tr EXCEPT !.current = [time |-> t2, step |-> tr.current.step - 1],
                      !.starts_at = t2]

\* step_backward(): current.step--, then current.time.subtract(...) in place
step_backward(tr) ==
  LET t2 == momentSubtract(tr.current.time, tr.time_scale, tr.time_units)
  IN  [tr EXCEPT !.current = [time |-> t2, step |-> tr.current.step - 1],
                 !.starts_at = t2]

\* mutant: the loop condition written i <= this.steps
loopGuard_inclusive(n, tr) == LessThan(n - 1, tr.steps)

\* mutant: the loop runs for the magnitude of steps
loopGuard_magnitude(n, tr) ==
  LessThan(n, tr.steps) \/ LessThan(n, [tr.steps EXCEPT !.num10 = 0 - @])

\* the loop condition i < this.steps
loopGuard(n, tr) == LessThan(n, tr.steps)

\* ------------------------------------------------------------------ state
VARIABLES
  settings,  \* the settings object the caller holds
  trav,      \* trav[t]: the TimeTraveler object t ("T": built by the caller
             \* with new; "F": built inside the facade run)
  i,         \* the loop counter of run and runAsync (an implicit global)
  stack,     \* the active run/runAsync calls, innermost last
  log,       \* log[t]: the arguments the callback received from t, in order
  result,    \* result[t]: how the last run/runAsync/facade call on t ended
  ret,       \* what the last validate() / is_valid() call returned
  hist,      \* the top-level calls made so far, each with the cursor and
             \* the log length it found
  cb         \* the callback handed to T's run: what it does when invoked

vars == <<settings, trav, i, stack, log, result, ret, hist, cb>>

\* mutant: the callback is handed the loop counter as its step
callbackArg_counter(tr) == [step |-> i, now |-> tr.current.time]

\* the argument run and runAsync hand to the callback
callbackArg(tr) == [step |-> tr.current.step, now |-> tr.current.time]

\* Array.prototype.toString, used by "..." + this.validate(): the messages
\* joined with ","
RECURSIVE arrayToString(_)
arrayToString(a) ==
  IF Len(a) = 0 THEN ""
  ELSE IF Len(a) = 1 THEN a[1]
  ELSE a[1] \o "," \o arrayToString(Tail(a))

\* mutant: a message made of the first violation only
errorMessage_first(tr) == "Invalid TimeTraveler: " \o validate(tr)[1]

\* the message of the Error run throws and runAsync rejects with
errorMessage(tr) == "Invalid TimeTraveler: " \o arrayToString(validate(tr))

\* a callback that only looks at its argument (the tests' counter++)
Observe == [kind |-> "observe", inner |-> 0, throw_at |-> 0, calls |-> 0,
            active |-> FALSE]

NoResult == [op |-> "none", status |-> "none", errors |-> <<>>, message |-> ""]
NoRet    == [op |-> "none", t |-> "T", errors |-> <<>>, flag |-> FALSE]

Init ==
  /\ settings \in SettingsInputs
  /\ trav = [t \in Travelers |-> TimeTraveler(settings)]
  /\ i = 0
  /\ stack = <<>>
  /\ log = [t \in Travelers |-> <<>>]
  /\ result = [t \in Travelers |-> NoResult]
  /\ ret = NoRet
  /\ hist = <<>>
  /\ cb = Observe

\* a top-level call may start when no call is running
Idle == stack = <<>>

Entry(op, t) ==
  [op |-> op, t |-> t, step |-> trav[t].current.step,
   time |-> trav[t].current.time, loglen |-> Len(log[t])]

Top == stack[Len(stack)]

\* traveler.step_forward()
Call_step_forward ==
  /\ Idle /\ Len(hist) < MaxOps
  /\ trav' = [trav EXCEPT !["T"] = step_forward(@)]
  /\ hist' = Append(hist, Entry("step_forward", "T"))
  /\ UNCHANGED <<cb, settings, i, stack, log, result, ret>>

\* traveler.step_backward()
Call_step_backward ==
  /\ Idle /\ Len(hist) < MaxOps
  /\ trav' = [trav EXCEPT !["T"] = step_backward(@)]
  /\ hist' = Append(hist, Entry("step_backward", "T"))
  /\ UNCHANGED <<cb, settings, i, stack, log, result, ret>>

\* traveler.validate()
Call_validate ==
  /\ Idle
  /\ ret' = [op |-> "validate", t |-> "T", errors |-> validate(trav["T"]), flag |-> FALSE]
  /\ UNCHANGED <<cb, settings, trav, i, stack, log, result, hist>>

\* mutant: is_valid answered from what the constructor was given
Call_is_valid_cached ==
  /\ Idle
  /\ ret' = [op |-> "is_valid", t |-> "T", errors |-> <<>>,
             flag |-> is_valid(TimeTraveler(settings))]
  /\ UNCHANGED <<cb, settings, trav, i, stack, log, result, hist>>

\* traveler.is_valid()
Call_is_valid ==
  /\ Idle
  /\ ret' = [op |-> "is_valid", t |-> "T", errors |-> <<>>, flag |-> is_valid(trav["T"])]
  /\ UNCHANGED <<cb, settings, trav, i, stack, log, result, hist>>

\* mutant: run without its validity check
run_enter_unchecked(t, tr) ==
  /\ i' = 0
  /\ stack' = Append(stack, [t |-> t, op |-> "run"])
  /\ result' = [result EXCEPT ![t] =
                  [op |-> "run", status |-> "running", errors |-> <<>>, message |-> ""]]

\* tr.run(callback), to the loop's start: an invalid traveler throws an Error
\* made of validate()'s messages; otherwise the loop begins with i = 0
run_enter(t, tr) ==
  IF ~is_valid(tr)
  THEN /\ result' = [result EXCEPT ![t] =
                       [op |-> "run", status |-> "threw", errors |-> validate(tr),
                        message |-> errorMessage(tr)]]
       /\ UNCHANGED <<i, stack>>
  ELSE /\ i' = 0
       /\ stack' = Append(stack, [t |-> t, op |-> "run"])
       /\ result' = [result EXCEPT ![t] =
                       [op |-> "run", status |-> "running", errors |-> <<>>, message |-> ""]]

\* traveler.run(callback)
Call_run ==
  /\ Idle /\ Len(hist) < MaxOps
  /\ run_enter("T", trav["T"])
  /\ hist' = Append(hist, Entry("run", "T"))
  /\ UNCHANGED <<cb, settings, trav, log, ret>>

\* mutant: a loop that steps forward before it invokes the callback
run_iteration_step_first ==
  /\ stack # <<>> /\ Top.op = "run"
  /\ Top.t = "F" \/ cb.kind = "observe"
  /\ loopGuard(i, trav[Top.t])
  /\ log' = [log EXCEPT ![Top.t] = Append(@, callbackArg(step_forward(trav[Top.t])))]
  /\ trav' = [trav EXCEPT ![Top.t] = step_forward(@)]
  /\ i' = i + 1
  /\ UNCHANGED <<cb, settings, stack, result, ret, hist>>

\* one pass of run's loop: the callback gets the cursor, then step_forward, i++
run_iteration ==
  /\ stack # <<>> /\ Top.op = "run"
  /\ Top.t = "F" \/ cb.kind = "observe"
  /\ loopGuard(i, trav[Top.t])
  /\ log' = [log EXCEPT ![Top.t] = Append(@, callbackArg(trav[Top.t]))]
  /\ trav' = [trav EXCEPT ![Top.t] = step_forward(@)]
  /\ i' = i + 1
  /\ UNCHANGED <<cb, settings, stack, result, ret, hist>>

\* run's loop ends and run returns
run_return ==
  /\ stack # <<>> /\ Top.op = "run"
  /\ Top.t = "F" \/ ~cb.active
  /\ ~loopGuard(i, trav[Top.t])
  /\ result' = [result EXCEPT ![Top.t].status = "returned"]
  /\ stack' = SubSeq(stack, 1, Len(stack) - 1)
  /\ UNCHANGED <<cb, settings, trav, i, log, ret, hist>>

\* mutant: runAsync that calls resolve() before its loop
Call_runAsync_resolves_first ==
  /\ Idle /\ Len(hist) < MaxOps
  /\ result' = [result EXCEPT !["T"] =
                  IF ~is_valid(trav["T"])
                  THEN [op |-> "runAsync", status |-> "rejected",
                        errors |-> validate(trav["T"]),
                        message |-> errorMessage(trav["T"])]
                  ELSE [op |-> "runAsync", status |-> "resolved", errors |-> <<>>,
                        message |-> ""]]
  /\ i' = 0
  /\ stack' = Append(stack, [t |-> "T", op |-> "runAsync"])
  /\ hist' = Append(hist, Entry("runAsync", "T"))
  /\ UNCHANGED <<cb, settings, trav, log, ret>>

\* traveler.runAsync(callback), to the loop's start: the promise executor runs
\* at once; on an invalid traveler it calls reject(...) and goes on to the loop
Call_runAsync ==
  /\ Idle /\ Len(hist) < MaxOps
  /\ result' = [result EXCEPT !["T"] =
                  IF ~is_valid(trav["T"])
                  THEN [op |-> "runAsync", status |-> "rejected",
                        errors |-> validate(trav["T"]),
                        message |-> errorMessage(trav["T"])]
                  ELSE [op |-> "runAsync", status |-> "pending", errors |-> <<>>,
                        message |-> ""]]
  /\ i' = 0
  /\ stack' = Append(stack, [t |-> "T", op |-> "runAsync"])
  /\ hist' = Append(hist, Entry("runAsync", "T"))
  /\ UNCHANGED <<cb, settings, trav, log, ret>>

\* one pass of runAsync's loop
runAsync_iteration ==
  /\ stack # <<>> /\ Top.op = "runAsync"
  /\ loopGuard(i, trav[Top.t])
  /\ log' = [log EXCEPT ![Top.t] = Append(@, callbackArg(trav[Top.t]))]
  /\ trav' = [trav EXCEPT ![Top.t] = step_forward(@)]
  /\ i' = i + 1
  /\ UNCHANGED <<cb, settings, stack, result, ret, hist>>

\* runAsync's loop ends and resolve() is called: it settles the promise
\* unless reject() settled it before
runAsync_resolve ==
  /\ stack # <<>> /\ Top.op = "runAsync"
  /\ ~loopGuard(i, trav[Top.t])
  /\ result' = [result EXCEPT ![Top.t].status =
                  IF @ = "pending" THEN "resolved" ELSE @]
  /\ stack' = SubSeq(stack, 1, Len(stack) - 1)
  /\ UNCHANGED <<cb, settings, trav, i, log, ret, hist>>

\* mutant: a facade that catches what run throws and returns normally
Facade_run_swallows ==
  /\ Idle /\ Len(hist) < MaxOps
  /\ LET traveler == TimeTraveler(settings)
     IN  /\ trav' = [trav EXCEPT !["F"] = traveler]
         /\ IF ~is_valid(traveler)
            THEN /\ result' = [result EXCEPT !["F"] =
                        [op |-> "run", status |-> "returned", errors |-> <<>>, message |-> ""]]
                 /\ UNCHANGED <<i, stack>>
            ELSE run_enter("F", traveler)
  /\ log' = [log EXCEPT !["F"] = <<>>]
  /\ hist' = Append(hist, [op |-> "facade", t |-> "F", step |-> 0,
                           time |-> moment(settings.starts_at), loglen |-> 0])
  /\ UNCHANGED <<cb, settings, ret>>

\* index.js run(settings, callback): a new TimeTraveler from the settings,
\* then its run(callback); what run throws goes on to the caller.  The
\* callback given to the facade keeps its own count, so log["F"] starts empty.
Facade_run ==
  /\ Idle /\ Len(hist) < MaxOps
  /\ LET traveler == TimeTraveler(settings)
     IN  /\ trav' = [trav EXCEPT !["F"] = traveler]
         /\ run_enter("F", traveler)
  /\ log' = [log EXCEPT !["F"] = <<>>]
  /\ hist' = Append(hist, [op |-> "facade", t |-> "F", step |-> 0,
                           time |-> moment(settings.starts_at), loglen |-> 0])
  /\ UNCHANGED <<cb, settings, ret>>

Next ==
  \/ Call_step_forward
  \/ Call_step_backward
  \/ Call_validate
  \/ Call_is_valid
  \/ Call_run
  \/ run_iteration
  \/ run_return
  \/ Call_runAsync
  \/ runAsync_iteration
  \/ runAsync_resolve
  \/ Facade_run

Spec == Init /\ [][Next]_vars

\* ------------------------------------------- callbacks that do something
\* cb.kind "nested": the callback calls the facade run on settings of its own
\* (steps cb.inner) with an observing callback; cb.kind "throws": the
\* callback counts its invocations in cb.calls and throws on the one numbered
\* cb.throw_at (from 0).  cb.active: the callback's body is under way.
Callbacks ==
  {Observe}
  \cup { [Observe EXCEPT !.kind = "nested", !.inner = n] : n \in 0..MaxInner }
  \cup { [Observe EXCEPT !.kind = "throws", !.throw_at = k] : k \in 0..(MaxSteps - 1) }

\* the travelers of these behaviours are valid
InitCallbacks ==
  /\ Init
  /\ moment(settings.starts_at).valid /\ NumberIsInteger(settings.steps)

\* traveler.run(callback) with a callback made for this call
Call_run_callback ==
  /\ Idle /\ Len(hist) < MaxCallbackOps
  /\ cb' \in Callbacks
  /\ run_enter("T", trav["T"])
  /\ hist' = Append(hist, Entry("run", "T"))
  /\ UNCHANGED <<settings, trav, log, ret>>

\* run's loop invokes a callback that runs another traveler: the callback gets
\* the cursor and calls the facade, which builds its own traveler and starts
\* that traveler's run (i = 0 again: the loop counter is one global)
run_callback_nested ==
  /\ stack # <<>> /\ Top = [t |-> "T", op |-> "run"]
  /\ cb.kind = "nested" /\ ~cb.active
  /\ loopGuard(i, trav["T"])
  /\ Len(log["T"]) < MaxCalls
  /\ log' = [log EXCEPT !["T"] = Append(@, callbackArg(trav["T"])), !["F"] = <<>>]
  /\ cb' = [cb EXCEPT !.active = TRUE]
  /\ LET traveler == TimeTraveler([settings EXCEPT !.steps = JsInt(cb.inner)])
     IN  /\ trav' = [trav EXCEPT !["F"] = traveler]
         /\ run_enter("F", traveler)
  /\ UNCHANGED <<settings, ret, hist>>

\* the callback returns to run's loop: step_forward, i++
callback_return ==
  /\ stack # <<>> /\ Top = [t |-> "T", op |-> "run"]
  /\ cb.active
  /\ cb' = [cb EXCEPT !.active = FALSE]
  /\ trav' = [trav EXCEPT !["T"] = step_forward(@)]
  /\ i' = i + 1
  /\ UNCHANGED <<settings, stack, log, result, ret, hist>>

\* one pass of run's loop with a counting callback that does not throw yet
run_iteration_counted ==
  /\ stack # <<>> /\ Top = [t |-> "T", op |-> "run"]
  /\ cb.kind = "throws" /\ cb.calls # cb.throw_at
  /\ loopGuard(i, trav["T"])
  /\ log' = [log EXCEPT !["T"] = Append(@, callbackArg(trav["T"]))]
  /\ cb' = [cb EXCEPT !.calls = @ + 1]
  /\ trav' = [trav EXCEPT !["T"] = step_forward(@)]
  /\ i' = i + 1
  /\ UNCHANGED <<settings, stack, result, ret, hist>>

\* mutant: a loop that steps forward before it invokes the callback
run_callback_throws_after_step ==
  /\ stack # <<>> /\ Top = [t |-> "T", op |-> "run"]
  /\ cb.kind = "throws" /\ cb.calls = cb.throw_at
  /\ loopGuard(i, trav["T"])
  /\ log' = [log EXCEPT !["T"] = Append(@, callbackArg(step_forward(trav["T"])))]
  /\ cb' = [cb EXCEPT !.calls = @ + 1]
  /\ trav' = [trav EXCEPT !["T"] = step_forward(@)]
  /\ result' = [result EXCEPT !["T"] =
                  [op |-> "run", status |-> "threw", errors |-> <<>>,
                   message |-> "callback error"]]
  /\ stack' = SubSeq(stack, 1, Len(stack) - 1)
  /\ UNCHANGED <<settings, i, ret, hist>>

\* run's loop invokes the callback and the callback throws: run catches
\* nothing, so the error leaves run before step_forward and i++
run_callback_throws ==
  /\ stack # <<>> /\ Top = [t |-> "T", op |-> "run"]
  /\ cb.kind = "throws" /\ cb.calls = cb.throw_at
  /\ loopGuard(i, trav["T"])
  /\ log' = [log EXCEPT !["T"] = Append(@, callbackArg(trav["T"]))]
  /\ cb' = [cb EXCEPT !.calls = @ + 1]
  /\ result' = [result EXCEPT !["T"] =
                  [op |-> "run", status |-> "threw", errors |-> <<>>,
                   message |-> "callback error"]]
  /\ stack' = SubSeq(stack, 1, Len(stack) - 1)
  /\ UNCHANGED <<settings, trav, i, ret, hist>>

NextCallbacks ==
  \/ Call_step_forward
  \/ Call_step_backward
  \/ Call_run_callback
  \/ run_iteration
  \/ run_return
  \/ run_callback_nested
  \/ callback_return
  \/ run_iteration_counted
  \/ run_callback_throws

SpecCallbacks == InitCallbacks /\ [][NextCallbacks]_vars

\* ------------------------------------------------- fields assigned later
\* the values a caller assigns to traveler.steps after construction
StepsAssigned == { JsInt(1), [kind |-> "frac", num10 |-> 15], JsUndef }

\* traveler.steps = v: steps is a plain public property of the object
Set_steps ==
  /\ Idle /\ Len(hist) < MaxFieldOps
  /\ \E v \in StepsAssigned : trav' = [trav EXCEPT !["T"].steps = v]
  /\ hist' = Append(hist, Entry("set_steps", "T"))
  /\ UNCHANGED <<cb, settings, i, stack, log, result, ret>>

NextFields ==
  \/ Set_steps
  \/ Call_step_forward
  \/ Call_step_backward
  \/ Call_validate
  \/ Call_is_valid
  \/ Call_run
  \/ run_iteration
  \/ run_return

SpecFields == Init /\ [][NextFields]_vars

\* ================================================================== claims
\* Helpers of the claims below (not part of the program).

\* the calls made on traveler T, in order
HistT == SelectSeq(hist, LAMBDA e : e.t = "T")
Last == hist[Len(hist)]
\* T's cursor
Cursor == trav["T"].current
\* the integer given as settings.steps (when it is one)
StepsInt == settings.steps.num10 \div 10
\* the moment the settings' starts_at parses to
Start == moment(settings.starts_at)
ValidSettings == Start.valid /\ settings.steps.kind = "int"
\* the step values the callback of traveler t received
StepsSeen(t) == [k \in 1..Len(log[t]) |-> log[t][k].step]
\* the only call made on T so far is a run
FreshRun == Len(HistT) = 1 /\ HistT[1].op = "run"

\* C1: on a freshly constructed valid traveler with integer steps >= 0, run
\* invokes the callback exactly steps times with the step values
\* 0, 1, ..., steps-1 in that order: while run is under way the values
\* received are a prefix of that sequence, and when it has returned they are
\* the whole of it.
C1_RunCallsStepsTimes ==
  (FreshRun /\ ValidSettings /\ StepsInt >= 0) =>
     /\ Len(log["T"]) <= StepsInt
     /\ StepsSeen("T") = [k \in 1..Len(log["T"]) |-> k - 1]
     /\ result["T"].status \in {"running", "returned"}
     /\ (result["T"].status = "returned" => Len(log["T"]) = StepsInt)

C1_Witness ==
  /\ FreshRun /\ ValidSettings /\ StepsInt = MaxSteps
  /\ result["T"].status = "returned"
  /\ StepsSeen("T") = [k \in 1..MaxSteps |-> k - 1]

\* C2: run on a traveler that is not valid throws the validation error at
\* once: the callback is not invoked and current.step and current.time are
\* what they were before the call.
C2_InvalidRunThrowsUntouched ==
  (hist # <<>> /\ Last.op = "run" /\ ~is_valid(trav["T"])) =>
     /\ result["T"].op = "run" /\ result["T"].status = "threw"
     /\ stack = <<>>
     /\ Len(log["T"]) = Last.loglen
     /\ Cursor.step = Last.step
     /\ Cursor.time = Last.time

C2_Witness ==
  /\ Len(hist) = 2 /\ hist[1].op = "step_forward" /\ Last.op = "run"
  /\ ~is_valid(trav["T"])
  /\ result["T"].status = "threw"
  /\ Cursor.step = 1 /\ log["T"] = <<>>

\* C3: runAsync on a traveler that is not valid rejects with run's validation
\* error and fails fast: once the call is over the promise is rejected with
\* validate()'s messages, the callback was not invoked and the cursor is what
\* it was before the call.
C3_InvalidRunAsyncFailsFast ==
  (hist # <<>> /\ Last.op = "runAsync" /\ ~is_valid(trav["T"]) /\ stack = <<>>) =>
     /\ result["T"].status = "rejected"
     /\ result["T"].errors = validate(trav["T"])
     /\ Len(log["T"]) = Last.loglen
     /\ Cursor.step = Last.step
     /\ Cursor.time = Last.time

\* the cursor right after the k-th call on T: the one the next call found,
\* or the present one when the k-th call is the latest (and is over)
CursorAfter(k) ==
  IF k < Len(HistT) THEN [time |-> HistT[k + 1].time, step |-> HistT[k + 1].step]
  ELSE Cursor
\* the k-th and k+1-th calls on T are step_forward, then step_backward
ForwardThenBackward(k) ==
  /\ k + 1 <= Len(HistT)
  /\ HistT[k].op = "step_forward" /\ HistT[k + 1].op = "step_backward"
\* the step_forward that was the k-th call on T clamped the day of month
Clamped(k) ==
  /\ HistT[k].time.valid
  /\ settings.time_units # "days"
  /\ HistT[k + 1].time.d # HistT[k].time.d

\* C4 as claimed: step_forward() followed by step_backward() returns
\* current.step and current.time to their prior values from every cursor, for
\* every time_units and time_scale, also when the addition clamps the day of
\* month.
C4_ForwardBackwardRoundTrip ==
  \A k \in 1..Len(HistT) :
     ForwardThenBackward(k) =>
        /\ CursorAfter(k + 1).step = HistT[k].step
        /\ CursorAfter(k + 1).time = HistT[k].time

\* C4 as amended: step_forward() followed by step_backward() always returns
\* current.step to its prior value; it returns a valid current.time to its
\* prior value when the forward addition did not clamp the day of month
\* (always so for days), and an invalid time stays invalid.
C4_RoundTripUnlessClamped ==
  \A k \in 1..Len(HistT) :
     ForwardThenBackward(k) =>
        /\ CursorAfter(k + 1).step = HistT[k].step
        /\ ~Clamped(k) => CursorAfter(k + 1).time = HistT[k].time
        /\ CursorAfter(k + 1).time.valid = HistT[k].time.valid

C4_Witness ==
  /\ Len(HistT) = 3 /\ HistT[1].op = "step_forward"
  /\ ForwardThenBackward(2) /\ ~Clamped(2)
  /\ settings.time_units = "months" /\ trav["T"].time_scale = 2
  /\ HistT[2].time.valid
  /\ Cursor.step = 1 /\ Cursor.time = HistT[2].time

\* moment m advanced n times in succession by the traveler's interval
RECURSIVE AdvancedStepwise(_, _)
AdvancedStepwise(m, n) ==
  IF n <= 0 THEN m
  ELSE AdvancedStepwise(
         momentAdd(m, OrOne(settings.time_scale), settings.time_units), n - 1)
\* moment m advanced once by n intervals
AdvancedAtOnce(m, n) ==
  momentAdd(m, n * OrOne(settings.time_scale), settings.time_units)
FreshRunReturned ==
  FreshRun /\ ValidSettings /\ StepsInt >= 0 /\ result["T"].status = "returned"

\* C5 as claimed: after run returns on a fresh valid traveler with steps >= 0
\* the cursor is at step == steps and at starts_at advanced by
\* steps*time_scale units.
C5_FinalCursorAtOnce ==
  FreshRunReturned =>
     /\ Cursor.step = StepsInt
     /\ Cursor.time = AdvancedAtOnce(Start, StepsInt)

\* C5 as amended: after run returns on a fresh valid traveler with steps >= 0
\* the cursor is at step == steps and at starts_at advanced steps times in
\* succession by time_scale units; that is starts_at advanced by
\* steps*time_scale units when the unit is days or no addition clamped the
\* day of month (the final day of month is the one of starts_at).
C5_FinalCursorStepwise ==
  FreshRunReturned =>
     /\ Cursor.step = StepsInt
     /\ Cursor.time = AdvancedStepwise(Start, StepsInt)
     /\ (settings.time_units = "days" \/ Cursor.time.d = Start.d)
           => Cursor.time = AdvancedAtOnce(Start, StepsInt)

C5_Witness ==
  /\ FreshRunReturned /\ StepsInt = MaxSteps
  /\ settings.time_units = "days" /\ trav["T"].time_scale = 2
  /\ Start = [valid |-> TRUE, y |-> 2016, m |-> 10, d |-> 31]
  /\ Cursor.step = MaxSteps
  /\ Cursor.time = AdvancedAtOnce(Start, MaxSteps)
  /\ Cursor.time.m = 11 /\ Cursor.time.d = 2 * MaxSteps

\* C6: on a valid traveler whose steps is an integer <= 0, run does not
\* throw, has nothing to iterate (it can only return), invokes the callback
\* zero times and leaves current.step and current.time as they were; it
\* never steps backward.
C6_NonPositiveStepsNoIteration ==
  (hist # <<>> /\ Last.op = "run" /\ is_valid(trav["T"]) /\ StepsInt <= 0) =>
     /\ result["T"].op = "run"
     /\ IF stack = <<>> THEN result["T"].status = "returned"
        ELSE result["T"].status = "running" /\ ~loopGuard(i, trav["T"])
     /\ Len(log["T"]) = Last.loglen
     /\ Cursor.step = Last.step
     /\ Cursor.time = Last.time

C6_Witness ==
  /\ Len(hist) = 2 /\ hist[1].op = "step_backward" /\ Last.op = "run"
  /\ is_valid(trav["T"]) /\ StepsInt = -1
  /\ stack = <<>> /\ result["T"].status = "returned"
  /\ log["T"] = <<>> /\ Cursor.step = -1

\* the settings' starts_at is one of the ISO dates that exist
StartsAtIsDate ==
  settings.starts_at \in { [kind |-> "iso", y |-> 2016, m |-> 10, d |-> 31],
                           [kind |-> "iso", y |-> 2016, m |-> 1,  d |-> 31] }
\* the settings' steps is an integer-valued number
StepsIsInteger == settings.steps \in { JsInt(n) : n \in -1..MaxSteps }
ExpectedErrors ==
  (IF StartsAtIsDate THEN <<>> ELSE <<"starts_at must be a valid ISO date">>)
  \o (IF StepsIsInteger THEN <<>> ELSE <<"steps must be an integer">>)

\* C7: validate() returns one message per violated rule and nothing else:
\* "starts_at must be a valid ISO date" iff starts_at is not a valid
\* timestamp, then "steps must be an integer" iff steps is not an
\* integer-valued number (boolean, fractional, string and missing violate,
\* zero and negative integers do not); both when both are violated, in that
\* order, whatever time_units and time_scale are and wherever the cursor is.
C7_ValidateMessages ==
  /\ validate(trav["T"]) = ExpectedErrors
  /\ ret.op = "validate" => ret.errors = ExpectedErrors
  /\ (ret.op = "validate" /\ settings.steps.kind \in {"bool", "frac", "str", "undef"})
        => \E k \in 1..Len(ret.errors) : ret.errors[k] = "steps must be an integer"
  /\ (ret.op = "validate" /\ settings.steps \in {JsInt(0), JsInt(-1)})
        => ret.errors \in {<<>>, <<"starts_at must be a valid ISO date">>}

C7_Witness ==
  /\ ret.op = "validate"
  /\ ret.errors = <<"starts_at must be a valid ISO date", "steps must be an integer">>
  /\ settings.starts_at.kind = "iso" /\ settings.steps.kind = "str"
  /\ Len(hist) > 0 /\ Cursor.step # 0

\* C8: for every configuration and every reachable cursor, is_valid() is true
\* iff validate() returns the empty sequence.
C8_IsValidIffNoErrors ==
  /\ \A t \in Travelers : is_valid(trav[t]) <=> (validate(trav[t]) = <<>>)
  /\ ret.op = "is_valid" => (ret.flag <=> (validate(trav["T"]) = <<>>))

C8_Witness ==
  /\ ret.op = "is_valid" /\ ~ret.flag
  /\ validate(trav["T"]) = <<"steps must be an integer">>
  /\ Len(hist) > 0 /\ Cursor.step # 0

\* the number of callback invocations the latest call on T has made
CallsOfLast == Len(log["T"]) - HistT[Len(HistT)].loglen
LastT == HistT[Len(HistT)]

\* C9: run never resets the cursor: every run on a valid traveler starts from
\* the cursor the preceding calls left (its j-th invocation carries the entry
\* step + j - 1, its first the entry time) and, with steps = n >= 0, ends n
\* steps further; so a second run after a completed first one passes
\* n, ..., 2n-1 and leaves current.step == 2n.
C9_RunContinuesFromCursor ==
  /\ (HistT # <<>> /\ LastT.op = "run" /\ ValidSettings) =>
        /\ \A j \in 1..CallsOfLast :
              log["T"][LastT.loglen + j].step = LastT.step + j - 1
        /\ CallsOfLast >= 1 => log["T"][LastT.loglen + 1].now = LastT.time
        /\ (stack = <<>> /\ StepsInt >= 0) =>
              /\ CallsOfLast = StepsInt
              /\ Cursor.step = LastT.step + StepsInt
  /\ (Len(HistT) = 2 /\ HistT[1].op = "run" /\ HistT[2].op = "run"
        /\ ValidSettings /\ StepsInt >= 0 /\ stack = <<>>) =>
        /\ StepsSeen("T") = [k \in 1..(2 * StepsInt) |-> k - 1]
        /\ Cursor.step = 2 * StepsInt

C9_Witness ==
  /\ Len(HistT) = 2 /\ HistT[1].op = "run" /\ HistT[2].op = "run"
  /\ ValidSettings /\ StepsInt = 2 /\ stack = <<>>
  /\ StepsSeen("T") = <<0, 1, 2, 3>>
  /\ Cursor.step = 4

\* the facade has been called and is over
FacadeDone ==
  /\ \E k \in 1..Len(hist) : hist[k].op = "facade"
  /\ stack = <<>>

\* C10: the facade run(settings, callback) does what constructing a
\* TimeTraveler from the settings and calling its run(callback) does: the
\* callback receives the same arguments in the same order, and the caller
\* gets the same outcome (a normal return, or the same validation error).
C10_FacadeLikeRun ==
  (FacadeDone /\ FreshRun) =>
     /\ log["F"] = log["T"]
     /\ result["F"] = result["T"]
     /\ result["F"].status \in {"returned", "threw"}
     /\ trav["F"] = trav["T"]

C10_Witness ==
  /\ FacadeDone /\ FreshRun
  /\ Len(log["F"]) = MaxSteps /\ log["F"] = log["T"]
  /\ result["F"].status = "returned"

C10_WitnessThrows ==
  /\ FacadeDone /\ FreshRun
  /\ result["F"].status = "threw" /\ result["F"].errors # <<>>


\* the only call made on T so far is a runAsync
FreshRunAsync == Len(HistT) = 1 /\ HistT[1].op = "runAsync"

\* C11: on a valid traveler runAsync iterates as run does: the callback is
\* invoked once per step, in order, with the arguments run hands over (those
\* the facade's run on a fresh traveler of the same settings produced), one
\* invocation at a time; the promise is pending until the last invocation is
\* over and resolved after it, and the final cursor is run's.
C11_RunAsyncLikeRun ==
  (FreshRunAsync /\ ValidSettings) =>
     /\ Len(stack) <= 1
     /\ StepsSeen("T") = [k \in 1..Len(log["T"]) |-> k - 1]
     /\ \A k \in 1..Len(log["T"]) : log["T"][k].now = AdvancedStepwise(Start, k - 1)
     /\ (stack # <<>> /\ Top.t = "T") =>
           /\ result["T"].status = "pending"
           /\ Len(log["T"]) <= (IF StepsInt >= 0 THEN StepsInt ELSE 0)
     /\ (stack = <<>>) =>
           /\ result["T"].status = "resolved"
           /\ Len(log["T"]) = (IF StepsInt >= 0 THEN StepsInt ELSE 0)
     /\ FacadeDone =>
           /\ log["T"] = log["F"]
           /\ trav["T"] = trav["F"]

C11_Witness ==
  /\ FreshRunAsync /\ ValidSettings /\ FacadeDone
  /\ StepsInt = MaxSteps
  /\ result["T"].status = "resolved" /\ result["F"].status = "returned"
  /\ Len(log["T"]) = MaxSteps /\ log["T"] = log["F"]
  /\ trav["T"].current = trav["F"].current


\* the latest call is a run of T whose callback runs another traveler
NestedRun == hist # <<>> /\ Last.op = "run" /\ cb.kind = "nested"

\* C12: travelers are isolated: when the callback of T's run runs another
\* traveler, T's run still invokes its callback exactly steps times, with
\* the step values entry, ..., entry + steps - 1 (0..steps-1 when fresh), and
\* the other traveler's run leaves T's cursor alone.
C12_NestedRunIsolated ==
  /\ (NestedRun /\ stack = <<>> /\ StepsInt >= 0) =>
        /\ CallsOfLast = StepsInt
        /\ \A j \in 1..CallsOfLast :
              log["T"][LastT.loglen + j].step = LastT.step + j - 1
  /\ (NestedRun /\ cb.active) =>
        Cursor.step = log["T"][Len(log["T"])].step

\* T's run is at the head of its loop
AtLoopHead == stack = <<[t |-> "T", op |-> "run"]>> /\ ~cb.active

\* C13: a run whose callback always returns comes to its end, also when the
\* callback runs another traveler to completion (steps = 0 included): once
\* the callback has been invoked steps times and has returned, the loop is
\* over and run can only return.
C13_RunEndsAfterSteps ==
  (hist # <<>> /\ Last.op = "run" /\ cb.kind \in {"observe", "nested"}
     /\ AtLoopHead /\ StepsInt >= 0 /\ CallsOfLast >= StepsInt)
  => ~loopGuard(i, trav["T"])

\* the latest call is a run of T whose callback throws on invocation
\* cb.throw_at, which the loop reaches
ThrowingRun ==
  /\ hist # <<>> /\ Last.op = "run" /\ cb.kind = "throws"
  /\ cb.throw_at < StepsInt

\* C16: when the callback throws on its k-th invocation (from 0) the error
\* leaves run: that invocation is the last, and current.step has advanced by
\* exactly k since run began (the cursor is the one the failing invocation
\* was given).
C16_CallbackThrowLeavesCursor ==
  (ThrowingRun /\ stack = <<>>) =>
     /\ result["T"].status = "threw"
     /\ result["T"].message = "callback error"
     /\ CallsOfLast = cb.throw_at + 1
     /\ Cursor.step = LastT.step + cb.throw_at
     /\ Cursor = [step |-> log["T"][Len(log["T"])].step,
                  time |-> log["T"][Len(log["T"])].now]

C16_Witness ==
  /\ Len(hist) = 2 /\ hist[1].op = "step_backward"
  /\ ThrowingRun /\ stack = <<>> /\ cb.throw_at = 1 /\ StepsInt = MaxSteps
  /\ result["T"].status = "threw"
  /\ Cursor.step = 0 /\ CallsOfLast = 2


\* C14: step_forward, step_backward and run change the cursor only: the
\* recorded starts_at stays the timestamp given at construction, and steps,
\* time_units and time_scale stay as constructed.
C14_OnlyCursorChanges ==
  /\ trav["T"].starts_at = Start
  /\ trav["T"].steps = settings.steps
  /\ trav["T"].time_units = settings.time_units
  /\ trav["T"].time_scale = OrOne(settings.time_scale)

\* C15 as claimed: on a fresh valid traveler the k-th invocation (from 0)
\* carries step k and starts_at advanced by k*time_scale units.
C15_InvocationTimesAtOnce ==
  (FreshRun /\ ValidSettings) =>
     \A k \in 1..Len(log["T"]) :
        /\ log["T"][k].step = k - 1
        /\ log["T"][k].now = AdvancedAtOnce(Start, k - 1)

\* C15 as amended: on a fresh valid traveler the k-th invocation (from 0)
\* carries the cursor before it is advanced: step k and starts_at advanced k
\* times in succession by time_scale units (starts_at advanced by
\* k*time_scale units when the unit is days or no addition clamped the day of
\* month); the first carries the original starts_at and step 0; the cursor
\* is advanced exactly once after every invocation, the last included.
C15_InvocationBeforeAdvance ==
  (FreshRun /\ ValidSettings) =>
     /\ \A k \in 1..Len(log["T"]) :
           /\ log["T"][k].step = k - 1
           /\ log["T"][k].now = AdvancedStepwise(Start, k - 1)
           /\ (settings.time_units = "days" \/ log["T"][k].now.d = Start.d)
                 => log["T"][k].now = AdvancedAtOnce(Start, k - 1)
           /\ k > 1 => log["T"][k].now = AdvancedStepwise(log["T"][k - 1].now, 1)
     /\ Len(log["T"]) >= 1 => log["T"][1] = [step |-> 0, now |-> Start]
     /\ Cursor.step = Len(log["T"])
     /\ Cursor.time = AdvancedStepwise(Start, Len(log["T"]))

C15_Witness ==
  /\ FreshRun /\ ValidSettings /\ StepsInt = MaxSteps
  /\ result["T"].status = "returned"
  /\ settings.time_units = "months" /\ trav["T"].time_scale = 1
  /\ log["T"][1] = [step |-> 0, now |-> [valid |-> TRUE, y |-> 2016, m |-> 10, d |-> 31]]
  /\ log["T"][2] = [step |-> 1, now |-> [valid |-> TRUE, y |-> 2016, m |-> 11, d |-> 30]]
  /\ log["T"][3] = [step |-> 2, now |-> [valid |-> TRUE, y |-> 2016, m |-> 12, d |-> 30]]
  /\ Cursor.step = MaxSteps

\* the calls made on T so far are step_forward and step_backward calls only
OnlySteps == \A k \in 1..Len(HistT) : HistT[k].op \in {"step_forward", "step_backward"}
CountOf(op) == Cardinality({k \in 1..Len(HistT) : HistT[k].op = op})

\* C17: step_forward adds exactly 1 to current.step and step_backward takes
\* exactly 1 off, with no validation and no lower bound: after f
\* step_forward and b step_backward calls in any order on a fresh traveler,
\* valid or not, current.step == f - b, negative when b > f.
C17_StepCountsCalls ==
  /\ OnlySteps => Cursor.step = CountOf("step_forward") - CountOf("step_backward")
  /\ \A k \in 1..Len(HistT) :
        /\ HistT[k].op = "step_forward" => CursorAfter(k).step = HistT[k].step + 1
        /\ HistT[k].op = "step_backward" => CursorAfter(k).step = HistT[k].step - 1

C17_Witness ==
  /\ OnlySteps /\ ~is_valid(trav["T"])
  /\ CountOf("step_forward") = 1 /\ CountOf("step_backward") = 2
  /\ HistT[1].op = "step_backward"
  /\ Cursor.step = -1

\* time_scale as the settings give it, 1 when they leave it out or give 0
ExpectedScale ==
  IF settings.time_scale \in {JsUndef, JsInt(0)} THEN 1
  ELSE settings.time_scale.num10 \div 10

\* C18: time_scale is 1 when the settings leave it unset or give a falsy
\* value (0), and the given value otherwise; each step_forward or
\* step_backward moves current.time by that many units, so that 2016-10-31
\* with units years and no scale is at 2018-10-31 after two step_forward
\* calls.
C18_TimeScaleDefault ==
  /\ \A t \in Travelers : trav[t].time_scale = ExpectedScale
  /\ \A k \in 1..Len(HistT) :
        /\ HistT[k].op = "step_forward" =>
              CursorAfter(k).time = momentAdd(HistT[k].time, ExpectedScale, settings.time_units)
        /\ HistT[k].op = "step_backward" =>
              CursorAfter(k).time = momentAdd(HistT[k].time, 0 - ExpectedScale, settings.time_units)
  /\ (/\ Len(HistT) = 2 /\ OnlySteps /\ CountOf("step_forward") = 2
      /\ settings.time_scale \in {JsUndef, JsInt(0)}
      /\ settings.time_units = "years"
      /\ Start = [valid |-> TRUE, y |-> 2016, m |-> 10, d |-> 31])
     => Cursor.time = [valid |-> TRUE, y |-> 2018, m |-> 10, d |-> 31]
  /\ (/\ Len(HistT) = 1 /\ HistT[1].op = "step_forward"
      /\ settings.time_scale \in {JsUndef, JsInt(0)}
      /\ settings.time_units = "days" /\ Start.valid)
     => Cursor.time = NextDay(Start)

C18_Witness ==
  /\ Len(HistT) = 2 /\ OnlySteps /\ CountOf("step_forward") = 2
  /\ settings.time_scale = JsInt(0)
  /\ settings.time_units = "years"
  /\ Cursor = [step |-> 2, time |-> [valid |-> TRUE, y |-> 2018, m |-> 10, d |-> 31]]

\* the message the claim gives for validate()'s messages
ExpectedMessage ==
  IF ExpectedErrors = <<"steps must be an integer">>
    THEN "Invalid TimeTraveler: steps must be an integer"
  ELSE IF ExpectedErrors = <<"starts_at must be a valid ISO date">>
    THEN "Invalid TimeTraveler: starts_at must be a valid ISO date"
  ELSE "Invalid TimeTraveler: starts_at must be a valid ISO date,steps must be an integer"

\* C20: run (by throwing) and runAsync (by rejecting) give an invalid
\* traveler one error, whose message is "Invalid TimeTraveler: " followed by
\* validate()'s messages in validate's order: exactly "Invalid TimeTraveler:
\* steps must be an integer" when only the steps rule is violated, and both
\* messages when both are; what runAsync does after reject() does not change
\* the error.
C20_ErrorMessage ==
  /\ \A t \in Travelers :
        result[t].status \in {"threw", "rejected"} =>
           /\ result[t].errors = ExpectedErrors
           /\ result[t].message = ExpectedMessage
  /\ (HistT # <<>> /\ LastT.op = "run" /\ ExpectedErrors # <<>>) =>
        result["T"].status = "threw"
  /\ (HistT # <<>> /\ LastT.op = "runAsync" /\ ExpectedErrors # <<>>) =>
        result["T"].status = "rejected"

C20_Witness ==
  /\ HistT # <<>> /\ LastT.op = "runAsync" /\ stack = <<>>
  /\ result["T"].status = "rejected"
  /\ result["T"].message =
       "Invalid TimeTraveler: starts_at must be a valid ISO date,steps must be an integer"
  /\ Len(log["T"]) = 2


\* what the two rules say of T's fields as they are now
FieldErrors ==
  (IF trav["T"].starts_at.valid THEN <<>> ELSE <<"starts_at must be a valid ISO date">>)
  \o (IF trav["T"].steps.kind = "int" THEN <<>> ELSE <<"steps must be an integer">>)

\* C19: validate() and is_valid() change neither the configuration nor the
\* cursor (nor anything else), every call returns what the two rules say of
\* the fields as they are at that call (so repeated calls agree, and a steps
\* assigned a non-integer after construction makes is_valid() false), and
\* step_forward, step_backward and run do not change what they return.
C19_ValidatePure ==
  [][ /\ (Call_validate \/ Call_is_valid) =>
            /\ trav' = trav /\ log' = log /\ result' = result
            /\ i' = i /\ stack' = stack
      /\ Call_validate => (ret'.op = "validate" /\ ret'.errors = FieldErrors')
      /\ Call_is_valid => (ret'.op = "is_valid" /\ ret'.flag = (FieldErrors' = <<>>))
      /\ (Call_step_forward \/ Call_step_backward \/ Call_run \/ run_iteration \/ run_return)
            => FieldErrors' = FieldErrors
    ]_vars

C19_Witness ==
  /\ ValidSettings
  /\ hist # <<>> /\ Last.op = "set_steps"
  /\ trav["T"].steps = [kind |-> "frac", num10 |-> 15]
  /\ ret.op = "is_valid" /\ ret.flag = FALSE

====
